---- MODULE Spec2Model ----
(***************************************************************************)
(* A model of the rink runtime's addressing substrate:                     *)
(*   - Path::from_str / Display / TryFrom<&str>       (src/src/path.rs)     *)
(*   - Container decoding and count-flag packing                            *)
(*                                      (src/src/runtime/container.rs)     *)
(*   - RuntimeGraph::resolve_path       (src/src/runtime_graph.rs)          *)
(* A Rust String is a sequence of one-character strings; Option<T> is a    *)
(* sequence of length at most one (None = << >>, Some(x) = << x >>).       *)
(***************************************************************************)
EXTENDS Integers, Sequences, FiniteSets, TLC

VARIABLES
    pc,                 \* position of the running operation
    path_str,           \* &str given to Path::from_str / Path::try_from
    parsed,             \* Option<Option<Path>>: Path::from_str's return, once called
    rendered,           \* Option<String>: format!("{}", path) once rendered
    try_result,         \* Option<Result<Path, PathError>> of Path::try_from
    elements,           \* the serialized array handed to Container's decoder
    decoded,            \* Option<Result<Container, ContainerError>>
    container,          \* Option<Container>: the live, mutable Container
    packed,             \* Option<u8>: the last value count_flags() returned
    graph,              \* RuntimeGraph: node id -> node, id 0 the root container
    path,               \* &Path given to resolve_path
    pos,                \* fragments the iterator `it` has already yielded
    current_container,  \* resolve_path's current_container (a node id)
    runtime_object,     \* resolve_path's runtime_object (Option of a node id)
    result,             \* Option<Option<node id>>: what resolve_path returned
    lhs,                \* a Fragment, left operand of == and first value hashed
    rhs,                \* a Fragment, right operand of == and second value hashed
    equal,              \* Option<bool>: what lhs == rhs returned
    hashed              \* Option of the two streams lhs and rhs fed to a Hasher

vars == << pc, path_str, parsed, rendered, try_result,
           elements, decoded, container, packed,
           graph, path, pos, current_container, runtime_object, result,
           lhs, rhs, equal, hashed >>

fragmentVars == << lhs, rhs, equal, hashed >>
pathVars == << path_str, parsed, rendered, try_result, fragmentVars >>
containerVars == << elements, decoded, container, packed >>
resolveVars == << graph, path, pos, current_container, runtime_object, result >>

None == << >>
Some(x) == << x >>
IsSome(o) == o /= None
Unwrap(o) == o[1]

(***************************************************************************)
(* Bounds.                                                                 *)
(***************************************************************************)
MaxStrLen == 4
MaxElements == 3
MaxFlagByte == 7
MaxNodes == 4
MaxPathLen == 3
MaxNameLen == 2
MaxIndex == 11


(***************************************************************************)
(* path.rs                                                                 *)
(***************************************************************************)
Chars == { ".", "^", "+", "0", "1", "a" }
DigitChars == << "0", "1", "2", "3", "4", "5", "6", "7", "8", "9" >>
IsDigit(c) == \E d \in 1..10 : DigitChars[d] = c
DigitValue(c) == (CHOOSE d \in 1..10 : DigitChars[d] = c) - 1

FragmentIndex(n) == [tag |-> "Index", index |-> n, name |-> << >>]
FragmentName(s) == [tag |-> "Name", index |-> 0, name |-> s]
FragmentParent == [tag |-> "Parent", index |-> 0, name |-> << >>]

\* usize's Display: decimal digits, no sign, no leading zeros.
RECURSIVE UsizeToString(_)
UsizeToString(n) ==
    IF n < 10 THEN << DigitChars[n + 1] >>
    ELSE UsizeToString(n \div 10) \o << DigitChars[(n % 10) + 1] >>

\* impl fmt::Display for Fragment
FragmentToString(f) ==
    CASE f.tag = "Index" -> UsizeToString(f.index)
      [] f.tag = "Name" -> f.name
      [] f.tag = "Parent" -> << "^" >>

RECURSIVE DigitsValue(_)
DigitsValue(ds) ==
    IF ds = << >> THEN 0
    ELSE 10 * DigitsValue(SubSeq(ds, 1, Len(ds) - 1)) + DigitValue(ds[Len(ds)])

\* token.parse::<usize>(): an optional '+', then one or more decimal digits.
\* Ok(n) is Some(n), every Err is None.  A token of at most MaxStrLen + 1
\* characters is below usize::MAX, so PosOverflow cannot arise here.
ParseUsize(token) ==
    IF token = << >> THEN None
    ELSE IF Len(token) = 1 /\ token[1] \in { "+", "-" } THEN None
    ELSE LET digits == IF token[1] = "+" THEN Tail(token) ELSE token
         IN IF \A i \in 1..Len(digits) : IsDigit(digits[i])
            THEN Some(DigitsValue(digits))
            ELSE None

\* the closure of from_str's map(): one token to one Fragment
TokenToFragment(token) ==
    LET r == ParseUsize(token)
    IN IF IsSome(r) THEN FragmentIndex(Unwrap(r))
       ELSE IF token = << "^" >> THEN FragmentParent
       ELSE FragmentName(token)

\* str::split('.'): the pieces between separators; "" splits to [""].
RECURSIVE Split(_, _)
Split(s, sep) ==
    IF \A i \in 1..Len(s) : s[i] /= sep THEN << s >>
    ELSE LET i == CHOOSE k \in 1..Len(s) :
                      s[k] = sep /\ \A j \in 1..(k - 1) : s[j] /= sep
         IN << SubSeq(s, 1, i - 1) >> \o Split(SubSeq(s, i + 1, Len(s)), sep)

\* Path::from_fragments
PathFromFragments(fragments, is_relative) ==
    [fragments |-> fragments, is_relative |-> is_relative]

\* Path::from_str without its is_empty() early return
PathFromStrNoEmptyCheck(s) ==
    LET is_relative == s /= << >> /\ s[1] = "."
        new_path == IF is_relative THEN Tail(s) ELSE s
        tokens == Split(new_path, ".")
    IN Some(PathFromFragments(
               [i \in 1..Len(tokens) |-> TokenToFragment(tokens[i])],
               is_relative))

\* Path::from_str
PathFromStr(s) ==
    IF s = << >> THEN None
    ELSE LET is_relative == s[1] = "."
             new_path == IF is_relative THEN Tail(s) ELSE s
             tokens == Split(new_path, ".")
         IN Some(PathFromFragments(
                    [i \in 1..Len(tokens) |-> TokenToFragment(tokens[i])],
                    is_relative))

\* [String]::join(".")
RECURSIVE Join(_, _)
Join(strs, sep) ==
    IF strs = << >> THEN << >>
    ELSE IF Len(strs) = 1 THEN strs[1]
    ELSE strs[1] \o << sep >> \o Join(Tail(strs), sep)

\* impl fmt::Display for Path
PathToString(p) ==
    (IF p.is_relative THEN << "." >> ELSE << >>)
    \o Join([i \in 1..Len(p.fragments) |-> FragmentToString(p.fragments[i])], ".")

Ok(v) == [ok |-> v]
Err(e) == [err |-> e]
IsOk(r) == DOMAIN r = { "ok" }
IsErr(r) == DOMAIN r = { "err" }

\* impl TryFrom<&str> for Path
PathTryFrom(s) ==
    LET o == PathFromStr(s)
    IN IF IsSome(o) THEN Ok(Unwrap(o)) ELSE Err("Failed parsing empty path")

InitPath ==
    /\ pc = "path_start"
    /\ \E len \in 0..MaxStrLen : path_str \in [1..len -> Chars]
    /\ parsed = None
    /\ rendered = None
    /\ try_result = None
    /\ lhs = FragmentParent /\ rhs = FragmentParent /\ equal = None /\ hashed = None
    /\ elements = << >> /\ decoded = None /\ container = None /\ packed = None
    /\ graph = << >> /\ path = << >> /\ pos = 0 /\ current_container = 0
    /\ runtime_object = None /\ result = None

\* let path = Path::from_str(string)
FromStr ==
    /\ pc = "path_start"
    /\ parsed' = Some(PathFromStr(path_str))
    /\ pc' = "path_parsed"
    /\ UNCHANGED << path_str, rendered, try_result, fragmentVars,
                    containerVars, resolveVars >>

\* format!("{}", path)
Display ==
    /\ pc = "path_parsed"
    /\ IsSome(Unwrap(parsed))
    /\ rendered' = Some(PathToString(Unwrap(Unwrap(parsed))))
    /\ pc' = "path_rendered"
    /\ UNCHANGED << path_str, parsed, try_result, fragmentVars,
                    containerVars, resolveVars >>

\* Path::try_from(string)
TryFromStr ==
    /\ pc \in { "path_start", "path_parsed" }
    /\ try_result' = Some(PathTryFrom(path_str))
    /\ pc' = "path_tried"
    /\ UNCHANGED << path_str, parsed, rendered, fragmentVars,
                    containerVars, resolveVars >>

NextPath == FromStr \/ Display \/ TryFromStr

SpecPath == InitPath /\ [][NextPath]_vars

(***************************************************************************)
(* runtime/container.rs                                                    *)
(*                                                                         *)
(* A serialized element is an ordinary content node (opaque, named by an   *)
(* id), a bare null, or an object read as trailing metadata.  An object is *)
(* a function from its keys to their values.                               *)
(***************************************************************************)
ContentNodes == { "A", "B" }
NameStrings == { << "x" >> }
FlagBytes == 0..MaxFlagByte

JsonNode(id) == [json |-> "node", id |-> id, fields |-> << >>]
JsonNull == [json |-> "null", id |-> "", fields |-> << >>]
JsonObject(f) == [json |-> "object", id |-> "", fields |-> f]

Restrict(f, D) == [k \in D |-> f[k]]

MetadataObjects ==
    { Restrict(("#n" :> n) @@ ("#f" :> fl) @@ ("k" :> o), D) :
        n \in NameStrings, fl \in FlagBytes, o \in { "A" },
        D \in SUBSET { "#n", "#f", "k" } }

JsonElements ==
    { JsonNode(id) : id \in ContentNodes }
    \cup { JsonNull }
    \cup { JsonObject(f) : f \in MetadataObjects }

\* u8 & u8
RECURSIVE BitAnd(_, _)
BitAnd(a, b) ==
    IF a = 0 \/ b = 0 THEN 0
    ELSE (a % 2) * (b % 2) + 2 * BitAnd(a \div 2, b \div 2)

\* struct ContainerData, and its Default
ContainerDataOf(name, flags, named_subelements) ==
    [name |-> name, flags |-> flags, named_subelements |-> named_subelements]

ContainerDataDefault == ContainerDataOf(None, 0, << >>)

\* #[derive(Deserialize)] for ContainerData: "#n" renamed to name, "#f" to
\* flags (default 0), every other key flattened into named_subelements.
DeserializeContainerData(fields) ==
    ContainerDataOf(
        IF "#n" \in DOMAIN fields THEN Some(fields["#n"]) ELSE None,
        IF "#f" \in DOMAIN fields THEN fields["#f"] ELSE 0,
        Restrict(fields, DOMAIN fields \ { "#n", "#f" }))

\* enum ContainerElement
ElementRuntimeObject(object) ==
    [tag |-> "RuntimeObject", object |-> object, data |-> None]
ElementSpecialFinal(data) ==
    [tag |-> "SpecialFinal", object |-> "", data |-> data]

\* #[serde(untagged)] for ContainerElement: a content node is a
\* RuntimeObject, null is SpecialFinal(None), a metadata object is
\* SpecialFinal(Some(data)).
DeserializeElement(j) ==
    CASE j.json = "node" -> ElementRuntimeObject(j.id)
      [] j.json = "null" -> ElementSpecialFinal(None)
      [] j.json = "object" ->
            ElementSpecialFinal(Some(DeserializeContainerData(j.fields)))

\* enum ContainerError
UnexpectedRuntimeObject(object) ==
    [kind |-> "UnexpectedRuntimeObject", found |-> Some(object)]
NoElements == [kind |-> "NoElements", found |-> None]
UnexpectedNull == [kind |-> "UnexpectedNull", found |-> None]
UnexpectedMapObject(data) ==
    [kind |-> "UnexpectedMapObject", found |-> Some(data)]

\* struct Container
ContainerOf(content, named_subelements, name, visits, turn_index, start_only) ==
    [content |-> content,
     named_subelements |-> named_subelements,
     name |-> name,
     visits_should_be_counted |-> visits,
     turn_index_should_be_counted |-> turn_index,
     count_at_start_only |-> start_only]

RECURSIVE SelectSeq2(_, _)
SelectSeq2(seq, keep) ==
    IF seq = << >> THEN << >>
    ELSE (IF keep[1] THEN << seq[1] >> ELSE << >>)
         \o SelectSeq2(Tail(seq), Tail(keep))

\* try_from's map(..).collect::<Result<_, _>>() with the nulls dropped
\* instead of reported
CollectContentSkippingNulls(rest) ==
    LET kept == SelectSeq2(rest,
                    [i \in 1..Len(rest) |->
                        ~(rest[i].tag = "SpecialFinal" /\ rest[i].data = None)])
    IN IF \E i \in 1..Len(kept) : kept[i].tag /= "RuntimeObject"
       THEN LET i == CHOOSE k \in 1..Len(kept) :
                         /\ kept[k].tag /= "RuntimeObject"
                         /\ \A j \in 1..(k - 1) : kept[j].tag = "RuntimeObject"
            IN Err(UnexpectedMapObject(Unwrap(kept[i].data)))
       ELSE Ok([i \in 1..Len(kept) |-> kept[i].object])

\* try_from's map(..).collect::<Result<_, _>>(): the content nodes in order,
\* or the error of the first element that is not one.
CollectContent(rest) ==
    IF \E i \in 1..Len(rest) : rest[i].tag /= "RuntimeObject"
    THEN LET i == CHOOSE k \in 1..Len(rest) :
                      /\ rest[k].tag /= "RuntimeObject"
                      /\ \A j \in 1..(k - 1) : rest[j].tag = "RuntimeObject"
         IN IF rest[i].data = None
            THEN Err(UnexpectedNull)
            ELSE Err(UnexpectedMapObject(Unwrap(rest[i].data)))
    ELSE Ok([i \in 1..Len(rest) |-> rest[i].object])

\* try_from's tail with the 0x1 and 0x2 masks exchanged
ContainerFromDataMasksSwapped(content, data) ==
    ContainerOf(content, data.named_subelements, data.name,
                BitAnd(data.flags, 2) > 0,
                BitAnd(data.flags, 1) > 0,
                BitAnd(data.flags, 4) > 0)

\* try_from's tail: the flag bits and Ok(Container { .. })
ContainerFromData(content, data) ==
    ContainerOf(content, data.named_subelements, data.name,
                BitAnd(data.flags, 1) > 0,
                BitAnd(data.flags, 2) > 0,
                BitAnd(data.flags, 4) > 0)

\* impl TryFrom<Vec<ContainerElement>> for Container
ContainerTryFrom(elems) ==
    IF elems = << >> THEN Err(NoElements)
    ELSE LET last == elems[Len(elems)]
             rest == SubSeq(elems, 1, Len(elems) - 1)
         IN IF last.tag = "RuntimeObject"
            THEN Err(UnexpectedRuntimeObject(last.object))
            ELSE LET data == IF last.data = None THEN ContainerDataDefault
                             ELSE Unwrap(last.data)
                     content == CollectContent(rest)
                 IN IF IsErr(content) THEN content
                    ELSE Ok(ContainerFromData(content.ok, data))

\* Container::count_flags
CountFlagsOf(c) ==
    LET f0 == 0
        f1 == IF c.visits_should_be_counted THEN BitAnd(f0, 1) ELSE f0
        f2 == IF c.turn_index_should_be_counted THEN BitAnd(f1, 2) ELSE f1
        f3 == IF c.count_at_start_only THEN BitAnd(f2, 4) ELSE f2
    IN IF f3 = 4 THEN 0 ELSE f3

\* Container::set_count_flags
SetCountFlagsOf(c, count_flags) ==
    [c EXCEPT !.visits_should_be_counted = BitAnd(count_flags, 1) > 0,
              !.turn_index_should_be_counted = BitAnd(count_flags, 2) > 0,
              !.count_at_start_only = BitAnd(count_flags, 4) > 0]

InitContainer ==
    /\ pc = "container_start"
    /\ \E len \in 0..MaxElements : elements \in [1..len -> JsonElements]
    /\ decoded = None
    /\ container = None
    /\ packed = None
    /\ path_str = << >> /\ parsed = None /\ rendered = None /\ try_result = None
    /\ lhs = FragmentParent /\ rhs = FragmentParent /\ equal = None /\ hashed = None
    /\ graph = << >> /\ path = << >> /\ pos = 0 /\ current_container = 0
    /\ runtime_object = None /\ result = None

\* Deserialize for Container (#[serde(try_from = "Vec<ContainerElement>")]):
\* every element is read as a ContainerElement, then try_from runs.
DecodeContainer ==
    /\ pc = "container_start"
    /\ LET elems == [i \in 1..Len(elements) |-> DeserializeElement(elements[i])]
           r == ContainerTryFrom(elems)
       IN /\ decoded' = Some(r)
          /\ container' = IF IsOk(r) THEN Some(r.ok) ELSE None
    /\ pc' = "container_decoded"
    /\ UNCHANGED << elements, packed, pathVars, resolveVars >>

\* let flags = container.count_flags()
CountFlags ==
    /\ pc = "container_decoded"
    /\ IsSome(container)
    /\ packed' = Some(CountFlagsOf(Unwrap(container)))
    /\ pc' = "flags_packed"
    /\ UNCHANGED << elements, decoded, container, pathVars, resolveVars >>

\* container.set_count_flags(flags)
SetCountFlags ==
    /\ pc = "flags_packed"
    /\ container' = Some(SetCountFlagsOf(Unwrap(container), Unwrap(packed)))
    /\ pc' = "flags_restored"
    /\ UNCHANGED << elements, decoded, packed, pathVars, resolveVars >>

NextContainer == DecodeContainer \/ CountFlags \/ SetCountFlags

SpecContainer == InitContainer /\ [][NextContainer]_vars

(***************************************************************************)
(* runtime_graph.rs                                                        *)
(*                                                                         *)
(* The graph is an arena: node id -> node, id 0 the root container.  A     *)
(* node is RuntimeObject::Container (with a Container's content, name and  *)
(* named_subelements, content holding node ids) or RuntimeObject::Divert.  *)
(***************************************************************************)
NodeNames == { << "a" >>, << "b" >> }
NodeLabels == { "Divert", "Unnamed", "a", "b" }

ContainerNode(name, content, named) ==
    [kind |-> "Container", name |-> name, content |-> content,
     named_subelements |-> named]
DivertNode ==
    [kind |-> "Divert", name |-> None, content |-> << >>,
     named_subelements |-> << >>]

\* the children of node i, in the order add_child pushed them
ChildrenOf(i, n, parent) ==
    SelectSeq([k \in 1..(n - 1) |-> k], LAMBDA j : parent[j] = i)

\* The graph of n nodes in which node j > 0 was added to node parent[j] and
\* is a Divert, an unnamed container or a container named "a" or "b"; the
\* root also lists its last node under "b" in named_subelements.
GraphOf(n, parent, label) ==
    [i \in 0..(n - 1) |->
        IF i = 0
        THEN ContainerNode(None, ChildrenOf(0, n, parent),
                           IF n > 1 THEN (<< "b" >> :> (n - 1)) ELSE << >>)
        ELSE IF label[i] = "Divert" THEN DivertNode
        ELSE ContainerNode(IF label[i] = "Unnamed" THEN None ELSE Some(<< label[i] >>),
                           ChildrenOf(i, n, parent), << >>)]

Graphs ==
    UNION { { GraphOf(n, parent, label) :
                parent \in { p \in [1..(n - 1) -> 0..(n - 1)] :
                               \A j \in 1..(n - 1) :
                                  /\ p[j] < j
                                  /\ (p[j] = 0 \/ label[p[j]] /= "Divert") } } :
            n \in 1..MaxNodes, label \in [1..(MaxNodes - 1) -> NodeLabels] }

PathFragments ==
    { FragmentIndex(i) : i \in 0..1 }
    \cup { FragmentName(s) : s \in NodeNames }
    \cup { FragmentParent }

\* RuntimeObject::is_container
IsContainer(id) == graph[id].kind = "Container"

\* RuntimeObject::name
RuntimeObjectName(id) ==
    IF graph[id].kind = "Container" THEN graph[id].name ELSE None

\* Vec::get with an out-of-range index answered by the last element
GetClamped(content, index) ==
    IF content = << >> THEN None
    ELSE IF index < Len(content) THEN Some(content[index + 1])
    ELSE Some(content[Len(content)])

\* current_container.content.get(index)
Get(content, index) ==
    IF index < Len(content) THEN Some(content[index + 1]) ELSE None

\* the loop of Container::search_by_name over self.content
RECURSIVE SearchContent(_, _)
SearchContent(content, name) ==
    IF content = << >> THEN None
    ELSE IF RuntimeObjectName(content[1]) = Some(name)
         THEN Some(content[1])
         ELSE SearchContent(Tail(content), name)

\* Container::search_by_name
SearchByName(c, name) == SearchContent(graph[c].content, name)

\* the Some(child) arm without the move of current_container
DescendStaying(cc, child) == cc

\* the Some(child) arm: current_container moves into a Container child
Descend(cc, child) == IF IsContainer(child) THEN child ELSE cc

InitResolve ==
    /\ pc = "walk"
    /\ graph \in Graphs
    /\ \E len \in 1..MaxPathLen :
          \E frs \in [1..len -> PathFragments] :
             \E rel \in { FALSE } : path = PathFromFragments(frs, rel)
    /\ pos = 0
    /\ current_container = 0
    /\ runtime_object = None
    /\ result = None
    /\ path_str = << >> /\ parsed = None /\ rendered = None /\ try_result = None
    /\ lhs = FragmentParent /\ rhs = FragmentParent /\ equal = None /\ hashed = None
    /\ elements = << >> /\ decoded = None /\ container = None /\ packed = None

NextFragment == path.fragments[pos + 1]

\* one turn of the while loop on a looked-up child: Some(child) descends,
\* None returns None
Visit(found) ==
    IF IsSome(found)
    THEN /\ current_container' = Descend(current_container, Unwrap(found))
         /\ runtime_object' = found
         /\ pos' = pos + 1
         /\ UNCHANGED << pc, result >>
    ELSE /\ result' = Some(None)
         /\ pc' = "done"
         /\ UNCHANGED << current_container, runtime_object, pos >>

\* the &Fragment::Index(index) arm
StepIndex ==
    /\ pc = "walk"
    /\ pos < Len(path.fragments)
    /\ NextFragment.tag = "Index"
    /\ Visit(Get(graph[current_container].content, NextFragment.index))
    /\ UNCHANGED << graph, path, pathVars, containerVars >>

\* the &Fragment::Name(ref name) arm
StepName ==
    /\ pc = "walk"
    /\ pos < Len(path.fragments)
    /\ NextFragment.tag = "Name"
    /\ Visit(SearchByName(current_container, NextFragment.name))
    /\ UNCHANGED << graph, path, pathVars, containerVars >>

\* Fragment::Parent: the match has no arm for it.  Nothing moves
\* current_container upward and no value is returned.
StepParent ==
    /\ pc = "walk"
    /\ pos < Len(path.fragments)
    /\ NextFragment.tag = "Parent"
    /\ pc' = "no_arm"
    /\ UNCHANGED << graph, path, pos, current_container, runtime_object,
                    result, pathVars, containerVars >>

\* the iterator is exhausted: resolve_path returns runtime_object
Return ==
    /\ pc = "walk"
    /\ pos = Len(path.fragments)
    /\ result' = Some(runtime_object)
    /\ pc' = "done"
    /\ UNCHANGED << graph, path, pos, current_container, runtime_object,
                    pathVars, containerVars >>

NextResolve == StepIndex \/ StepName \/ StepParent \/ Return

SpecResolve == InitResolve /\ [][NextResolve]_vars


(***************************************************************************)
(* path.rs: Fragment's derived PartialEq, Eq and Hash                      *)
(***************************************************************************)
\* the Fragment values: the variants are public, so any index and any
\* string can be put in one
FragmentValues ==
    { FragmentIndex(n) : n \in 0..MaxIndex }
    \cup UNION { { FragmentName(s) : s \in [1..len -> Chars] } :
                   len \in 0..MaxNameLen }
    \cup { FragmentParent }

\* the variant's discriminant, in declaration order
Discriminant(f) ==
    CASE f.tag = "Index" -> 0
      [] f.tag = "Name" -> 1
      [] f.tag = "Parent" -> 2

\* #[derive(PartialEq, Eq)] on Fragment: the same variant holding equal
\* fields
FragmentEq(a, b) ==
    /\ Discriminant(a) = Discriminant(b)
    /\ CASE a.tag = "Index" -> a.index = b.index
         [] a.tag = "Name" -> a.name = b.name
         [] a.tag = "Parent" -> TRUE

\* #[derive(Hash)] on Fragment: what the value writes to the Hasher, the
\* discriminant and then the variant's field.  Hashing is a function of
\* this stream alone.
FragmentHash(f) ==
    CASE f.tag = "Index" -> << Discriminant(f), f.index >>
      [] f.tag = "Name" -> << Discriminant(f), f.name >>
      [] f.tag = "Parent" -> << Discriminant(f) >>

InitFragment ==
    /\ pc = "fragment_start"
    /\ lhs \in FragmentValues
    /\ rhs \in FragmentValues
    /\ equal = None
    /\ hashed = None
    /\ path_str = << >> /\ parsed = None /\ rendered = None /\ try_result = None
    /\ elements = << >> /\ decoded = None /\ container = None /\ packed = None
    /\ graph = << >> /\ path = << >> /\ pos = 0 /\ current_container = 0
    /\ runtime_object = None /\ result = None

\* lhs == rhs
CompareFragments ==
    /\ pc = "fragment_start"
    /\ equal' = Some(FragmentEq(lhs, rhs))
    /\ pc' = "fragment_compared"
    /\ UNCHANGED << lhs, rhs, hashed, path_str, parsed, rendered, try_result,
                    containerVars, resolveVars >>

\* lhs.hash(&mut hasher) and rhs.hash(&mut hasher), each on a fresh hasher
HashFragments ==
    /\ pc = "fragment_compared"
    /\ hashed' = Some(<< FragmentHash(lhs), FragmentHash(rhs) >>)
    /\ pc' = "fragment_hashed"
    /\ UNCHANGED << lhs, rhs, equal, path_str, parsed, rendered, try_result,
                    containerVars, resolveVars >>

NextFragmentOp == CompareFragments \/ HashFragments

SpecFragment == InitFragment /\ [][NextFragmentOp]_vars

(***************************************************************************)
(* The operations together: a behaviour runs one of them.                  *)
(***************************************************************************)
Init == InitPath \/ InitContainer \/ InitResolve \/ InitFragment

Next == NextPath \/ NextContainer \/ NextResolve \/ NextFragmentOp

Spec == Init /\ [][Next]_vars

(***************************************************************************)
(* Properties of path.rs                                                   *)
(***************************************************************************)

\* C7: for every non-empty path string s, rendering the Path parsed from s
\* reproduces s exactly, character for character.
C7_RoundTripExact ==
    pc = "path_rendered" => Unwrap(rendered) = path_str

\* C8: from_str returns None exactly when the input is empty; try_from("")
\* is the error "Failed parsing empty path"; every Path that from_str
\* returns has at least one fragment.
C8_EmptyPathRejected ==
    /\ IsSome(parsed) =>
         /\ (Unwrap(parsed) = None) <=> (path_str = << >>)
         /\ IsSome(Unwrap(parsed)) => Len(Unwrap(Unwrap(parsed)).fragments) >= 1
    /\ (IsSome(try_result) /\ path_str = << >>) =>
         Unwrap(try_result) = Err("Failed parsing empty path")
    /\ (IsSome(try_result) /\ path_str /= << >>) =>
         /\ IsOk(Unwrap(try_result))
         /\ Len(Unwrap(try_result).ok.fragments) >= 1

C8_Witness ==
    /\ pc = "path_tried"
    /\ path_str = << >>
    /\ parsed = Some(None)
    /\ IsErr(Unwrap(try_result))

\* The classification the grammar states: a token of decimal digits only is
\* an index, "^" is a parent step, anything else is a name.
AllDigits(token) ==
    token /= << >> /\ \A i \in 1..Len(token) : IsDigit(token[i])

GrammarFragment(token) ==
    IF AllDigits(token) THEN FragmentIndex(DigitsValue(token))
    ELSE IF token = << "^" >> THEN FragmentParent
    ELSE FragmentName(token)

\* C9: for a non-empty string, is_relative is true exactly when it starts
\* with '.', that one '.' is removed, the rest is split on '.', and each
\* token becomes Index(n) exactly when it is decimal digits only, Parent
\* exactly when it is "^", and Name(token) otherwise.
C9_SyntacticClassification ==
    (IsSome(parsed) /\ path_str /= << >>) =>
        LET p == Unwrap(Unwrap(parsed))
            rest == IF path_str[1] = "." THEN Tail(path_str) ELSE path_str
            tokens == Split(rest, ".")
        IN /\ IsSome(Unwrap(parsed))
           /\ p.is_relative = (path_str[1] = ".")
           /\ Len(p.fragments) = Len(tokens)
           /\ \A i \in 1..Len(tokens) : p.fragments[i] = GrammarFragment(tokens[i])

(***************************************************************************)
(* Properties of runtime/container.rs                                      *)
(***************************************************************************)
LastElement == elements[Len(elements)]
EarlierAreNodes == \A i \in 1..(Len(elements) - 1) : elements[i].json = "node"
WellFormedArray ==
    /\ elements /= << >>
    /\ LastElement.json \in { "null", "object" }
    /\ EarlierAreNodes
Bit(n, k) == (n \div k) % 2 = 1

\* C1: decoding a non-empty array whose last element is null or a metadata
\* object and whose earlier elements are all content nodes succeeds; the
\* content is the elements before the last, in order; a trailing null gives
\* no name, no named subelements and three false flags; a trailing object
\* gives its #n as name (absent if missing), its other keys as
\* named_subelements, and bits 0x1 / 0x2 / 0x4 of #f (0 if missing) as
\* visits / turn-index / count-at-start-only.
C1_DecodeWellFormed ==
    (IsSome(decoded) /\ WellFormedArray) =>
        /\ IsOk(Unwrap(decoded))
        /\ LET c == Unwrap(decoded).ok
               last == LastElement
               keys == DOMAIN last.fields
               f == IF "#f" \in keys THEN last.fields["#f"] ELSE 0
           IN /\ Len(c.content) = Len(elements) - 1
              /\ \A i \in 1..(Len(elements) - 1) : c.content[i] = elements[i].id
              /\ last.json = "null" =>
                    /\ c.name = None
                    /\ DOMAIN c.named_subelements = { }
                    /\ ~c.visits_should_be_counted
                    /\ ~c.turn_index_should_be_counted
                    /\ ~c.count_at_start_only
              /\ last.json = "object" =>
                    /\ "#n" \in keys => c.name = Some(last.fields["#n"])
                    /\ "#n" \notin keys => c.name = None
                    /\ DOMAIN c.named_subelements = keys \ { "#n", "#f" }
                    /\ \A k \in keys \ { "#n", "#f" } :
                          c.named_subelements[k] = last.fields[k]
                    /\ c.visits_should_be_counted = Bit(f, 1)
                    /\ c.turn_index_should_be_counted = Bit(f, 2)
                    /\ c.count_at_start_only = Bit(f, 4)

C1_Witness ==
    /\ pc = "container_decoded"
    /\ Len(elements) = 3
    /\ elements[1] = JsonNode("A")
    /\ elements[2] = JsonNode("B")
    /\ elements[3].json = "object"
    /\ DOMAIN elements[3].fields = { "#n", "#f", "k" }
    /\ elements[3].fields["#f"] = 3
    /\ IsOk(Unwrap(decoded))
    /\ Unwrap(decoded).ok.content = << "A", "B" >>

ErrorKind == Unwrap(decoded).err.kind
SomeEarlier(json) == \E i \in 1..(Len(elements) - 1) : elements[i].json = json
FirstOffending ==
    CHOOSE k \in 1..(Len(elements) - 1) :
        /\ elements[k].json /= "node"
        /\ \A j \in 1..(k - 1) : elements[j].json = "node"

\* C2 as stated: decoding fails with the no-elements error when the array is
\* empty, with the unexpected-node error when the last element is a content
\* node, with the unexpected-null error when some element before the last
\* is a bare null, and with the unexpected-map error when some element
\* before the last is a metadata object.
C2_ErrorPerCase ==
    IsSome(decoded) =>
        /\ elements = << >> =>
              IsErr(Unwrap(decoded)) /\ ErrorKind = "NoElements"
        /\ (elements /= << >> /\ LastElement.json = "node") =>
              IsErr(Unwrap(decoded)) /\ ErrorKind = "UnexpectedRuntimeObject"
        /\ SomeEarlier("null") =>
              IsErr(Unwrap(decoded)) /\ ErrorKind = "UnexpectedNull"
        /\ SomeEarlier("object") =>
              IsErr(Unwrap(decoded)) /\ ErrorKind = "UnexpectedMapObject"

\* C2 amended: in each of the four cases decoding fails and leaves no
\* Container; the error is no-elements for the empty array; unexpected-node
\* whenever the last element is a content node (whatever precedes it); and
\* otherwise the kind of the first element before the last that is not a
\* content node: unexpected-null for a null, unexpected-map for an object.
C2_ErrorByPrecedence ==
    (IsSome(decoded) /\ ~WellFormedArray) =>
        /\ IsErr(Unwrap(decoded))
        /\ container = None
        /\ elements = << >> => ErrorKind = "NoElements"
        /\ (elements /= << >> /\ LastElement.json = "node") =>
              ErrorKind = "UnexpectedRuntimeObject"
        /\ (elements /= << >> /\ LastElement.json /= "node") =>
              /\ elements[FirstOffending].json = "null" =>
                    ErrorKind = "UnexpectedNull"
              /\ elements[FirstOffending].json = "object" =>
                    ErrorKind = "UnexpectedMapObject"

C2_Witness ==
    /\ pc = "container_decoded"
    /\ Len(elements) = 3
    /\ elements[1].json = "object"
    /\ elements[2].json = "null"
    /\ elements[3].json = "null"
    /\ IsErr(Unwrap(decoded))
    /\ ErrorKind = "UnexpectedMapObject"

\* C10: for each of the 8 combinations of the three counting flags,
\* count_flags() followed by set_count_flags() of the returned value
\* restores the same three booleans, the packed value having bit 0x1 for
\* visits, 0x2 for turn index, 0x4 for count at start only.
C10_FlagsRoundTrip ==
    pc = "flags_restored" =>
        LET before == Unwrap(decoded).ok
            after == Unwrap(container)
        IN /\ after.visits_should_be_counted = before.visits_should_be_counted
           /\ after.turn_index_should_be_counted
                 = before.turn_index_should_be_counted
           /\ after.count_at_start_only = before.count_at_start_only
           /\ Bit(Unwrap(packed), 1) = before.visits_should_be_counted
           /\ Bit(Unwrap(packed), 2) = before.turn_index_should_be_counted
           /\ Bit(Unwrap(packed), 4) = before.count_at_start_only

(***************************************************************************)
(* Properties of runtime_graph.rs                                          *)
(***************************************************************************)
Fragments == path.fragments
OnlyIndexAndName(frs) ==
    \A i \in 1..Len(frs) : frs[i].tag \in { "Index", "Name" }

\* the positions of c's content holding a container named n
NamedAt(c, n) ==
    { k \in 1..Len(graph[c].content) :
        /\ graph[graph[c].content[k]].kind = "Container"
        /\ graph[graph[c].content[k]].name = Some(n) }

\* the child of container c that one fragment selects, if any
Selected(c, f) ==
    CASE f.tag = "Index" ->
            IF f.index + 1 \in 1..Len(graph[c].content)
            THEN Some(graph[c].content[f.index + 1]) ELSE None
      [] f.tag = "Name" ->
            IF NamedAt(c, f.name) = { } THEN None
            ELSE Some(graph[c].content[
                     CHOOSE k \in NamedAt(c, f.name) :
                        \A j \in NamedAt(c, f.name) : k <= j])
      [] OTHER -> None

\* descending from c one level per fragment: whether every fragment before
\* the last selected a Container, and what the last fragment selects
RECURSIVE DescentFrom(_, _)
DescentFrom(c, frs) ==
    IF Len(frs) = 1 THEN [through |-> TRUE, node |-> Selected(c, frs[1])]
    ELSE LET s == Selected(c, frs[1])
         IN IF IsSome(s) /\ graph[Unwrap(s)].kind = "Container"
            THEN DescentFrom(Unwrap(s), Tail(frs))
            ELSE [through |-> FALSE, node |-> None]

\* C3: for a path of Index and Name fragments whose every fragment before
\* the last refers to a Container, resolve_path descends from the root one
\* level per fragment (Index(i) is content[i]; Name(n) is the first child in
\* content order that is a container named n, named_subelements not
\* consulted) and returns the node the last fragment selects, Container or
\* not.
C3_ResolveDescends ==
    (/\ pc = "done"
     /\ OnlyIndexAndName(Fragments)
     /\ DescentFrom(0, Fragments).through
     /\ IsSome(DescentFrom(0, Fragments).node)) =>
        result = Some(DescentFrom(0, Fragments).node)

C3_Witness ==
    /\ pc = "done"
    /\ Fragments = << FragmentName(<< "a" >>), FragmentName(<< "b" >>),
                      FragmentIndex(0) >>
    /\ DescentFrom(0, Fragments).through
    /\ IsSome(Unwrap(result))
    /\ graph[Unwrap(Unwrap(result))].kind = "Divert"

\* whether some fragment before the last, reached through containers only,
\* selects a node that is not a Container
RECURSIVE ThroughNonContainer(_, _)
ThroughNonContainer(c, frs) ==
    IF Len(frs) <= 1 THEN FALSE
    ELSE LET s == Selected(c, frs[1])
         IN IF s = None THEN FALSE
            ELSE IF graph[Unwrap(s)].kind /= "Container" THEN TRUE
            ELSE ThroughNonContainer(Unwrap(s), Tail(frs))

\* C4: if a fragment that is not the last resolves to a node that is not a
\* Container, resolve_path returns no result; the remaining fragments are
\* never resolved against some other container.
C4_NoResultThroughNonContainer ==
    (pc = "done" /\ ThroughNonContainer(0, Fragments)) => result = Some(None)

\* the lookup of fragment f in container c finds nothing
LookupFails(c, f) ==
    \/ f.tag = "Index" /\ f.index >= Len(graph[c].content)
    \/ f.tag = "Name" /\ NamedAt(c, f.name) = { }

\* C5: whenever the walk meets an Index >= the length of the current
\* container's content, or a Name matching no named child container of the
\* current container's content, resolve_path returns no result at once (not
\* the last node reached) and returns normally.
C5_MissingChildIsNone ==
    [][(/\ pc = "walk"
        /\ pos < Len(Fragments)
        /\ LookupFails(current_container, NextFragment)) =>
           (pc' = "done" /\ result' = Some(None))]_vars

C5_Witness ==
    /\ pc = "done"
    /\ result = Some(None)
    /\ pos = 2
    /\ IsSome(runtime_object)
    /\ current_container /= 0
    /\ pos < Len(Fragments)
    /\ LookupFails(current_container, NextFragment)

\* the container whose content holds node c
EnclosingContainer(c) ==
    CHOOSE p \in DOMAIN graph :
        \E k \in 1..Len(graph[p].content) : graph[p].content[k] = c

\* C6: when the walk has descended into a child container and meets a
\* Parent fragment, the current position moves up to the container that
\* encloses the current container, the one the walk was in before the
\* descent, and the walk goes on.
C6_ParentStepsUp ==
    [][(/\ pc = "walk"
        /\ pos >= 1
        /\ pos < Len(Fragments)
        /\ NextFragment.tag = "Parent"
        /\ runtime_object = Some(current_container)) =>
           (/\ pc' = "walk"
            /\ pos' = pos + 1
            /\ current_container' = EnclosingContainer(current_container))]_vars

(***************************************************************************)
(* Properties of Fragment equality                                         *)
(***************************************************************************)
SameRendering == FragmentToString(lhs) = FragmentToString(rhs)

\* C11: two Fragment values, however constructed, compare equal exactly when
\* their Display renderings are the same string, and fragments that render
\* alike (Index(5) and Name("5"), Parent and Name("^")) hash alike.
C11_EqualityByRendering ==
    /\ IsSome(equal) => (Unwrap(equal) <=> SameRendering)
    /\ (IsSome(hashed) /\ SameRendering) =>
          Unwrap(hashed)[1] = Unwrap(hashed)[2]

====
